---- MODULE Spec2Model ----
(***************************************************************************)
(* Model of data_utils.py: tokenizer, vocabulary builder, vocabulary index, *)
(* encoder and the prepare_data pipeline.                                   *)
(*                                                                          *)
(* A byte string is a sequence of one-element strings.  A file is the byte  *)
(* string it holds; the file system maps the paths that exist to their      *)
(* contents.  The reserved symbols are single atoms ("_PAD" stands for the  *)
(* four bytes _ P A D): no operation of the program looks inside them.      *)
(***************************************************************************)
EXTENDS Integers, Sequences, FiniteSets, TLC

\* ---------------------------------------------------------------- bounds
MaxCorpusLen == 3
MaxSentenceLen == 3
MaxVocabularySize == 6

\* ------------------------------------------------------------- constants
_PAD == <<"_PAD">>
_GO == <<"_GO">>
_EOS == <<"_EOS">>
_UNK == <<"_UNK">>
_START_VOCAB == <<_PAD, _GO, _EOS, _UNK>>

PAD_ID == 0
GO_ID == 1
EOS_ID == 2
UNK_ID == 3

\* The characters _WORD_SPLIT captures, and the ones \d matches in a bytes pattern.
_WORD_SPLIT == {".", ",", "!", "?", "\"", "'", ":", ";", ")", "("}
_DIGIT_RE == {"0", "1", "2", "3", "4", "5", "6", "7", "8", "9"}
\* What bytes.strip() and bytes.split() treat as white space.
WhiteSpace == {" ", "\t", "\n", "\r"}

\* The bytes the inputs are drawn from: a letter, two digits, a punctuation
\* mark, a blank, a line feed and the spelling of a reserved symbol.
Bytes == {"a", "1", "2", ".", " ", "\n", "_PAD"}

RECURSIVE StringsUpTo(_)
StringsUpTo(n) ==
    IF n = 0 THEN {<<>>}
    ELSE LET shorter == StringsUpTo(n - 1)
         IN  shorter \cup {Append(s, b) : s \in {t \in shorter : Len(t) = n - 1}, b \in Bytes}

Corpora == StringsUpTo(MaxCorpusLen)
Sentences == StringsUpTo(MaxSentenceLen)

\* -------------------------------------------------- byte string primitives
Range(s) == {s[i] : i \in DOMAIN s}

\* Iterating a binary file: the lines, each with its terminator, and a last
\* line without one when the file does not end in a line feed.
RECURSIVE IterLines(_, _, _)
IterLines(s, i, cur) ==
    IF i > Len(s) THEN (IF cur = <<>> THEN <<>> ELSE <<cur>>)
    ELSE IF s[i] = "\n" THEN <<Append(cur, s[i])>> \o IterLines(s, i + 1, <<>>)
    ELSE IterLines(s, i + 1, Append(cur, s[i]))

ReadLines(content) == IterLines(content, 1, <<>>)

\* bytes.strip(): leading and trailing white space removed.
RECURSIVE LStrip(_)
LStrip(s) == IF s # <<>> /\ Head(s) \in WhiteSpace THEN LStrip(Tail(s)) ELSE s

RECURSIVE RStrip(_)
RStrip(s) ==
    IF s # <<>> /\ s[Len(s)] \in WhiteSpace THEN RStrip(SubSeq(s, 1, Len(s) - 1)) ELSE s

Strip(s) == RStrip(LStrip(s))

\* bytes.split(): the maximal runs of non-white-space bytes.
RECURSIVE SplitFrom(_, _, _)
SplitFrom(s, i, cur) ==
    IF i > Len(s) THEN (IF cur = <<>> THEN <<>> ELSE <<cur>>)
    ELSE IF s[i] \in WhiteSpace
         THEN (IF cur = <<>> THEN <<>> ELSE <<cur>>) \o SplitFrom(s, i + 1, <<>>)
         ELSE SplitFrom(s, i + 1, Append(cur, s[i]))

Split(s) == SplitFrom(s, 1, <<>>)

\* _WORD_SPLIT.split(fragment): the pieces between the captured characters and
\* the captured characters themselves, empty pieces included.
RECURSIVE ReSplitFrom(_, _, _)
ReSplitFrom(s, i, cur) ==
    IF i > Len(s) THEN <<cur>>
    ELSE IF s[i] \in _WORD_SPLIT
         THEN <<cur, <<s[i]>>>> \o ReSplitFrom(s, i + 1, <<>>)
         ELSE ReSplitFrom(s, i + 1, Append(cur, s[i]))

WordSplit(fragment) == ReSplitFrom(fragment, 1, <<>>)

\* _DIGIT_RE.sub(b"0", w)
DigitSub(w) == [i \in 1..Len(w) |-> IF w[i] \in _DIGIT_RE THEN "0" ELSE w[i]]

\* ------------------------------------------------------------- tokenizer
RECURSIVE ExtendWords(_)
ExtendWords(fragments) ==
    IF fragments = <<>> THEN <<>>
    ELSE WordSplit(Head(fragments)) \o ExtendWords(Tail(fragments))

basic_tokenizer(sentence) ==
    LET words == ExtendWords(Split(Strip(sentence)))
    IN  SelectSeq(words, LAMBDA w : w # <<>>)

\* ------------------------------------------------------------ the state
VARIABLES
    fs,          \* the file system: path |-> content, for the paths that exist
    call,        \* the last operation run and its arguments
    err,         \* the exception the last operation raised, or "None"
    io,          \* the file operations of the last operation, in order
    vocab,       \* the token -> id dict last returned by initialize_vocabulary
    rev_vocab,   \* the id -> token list last returned by initialize_vocabulary
    token_ids,   \* the list last returned by sentence_to_token_ids
    input,       \* the sentence and normalize_digits given to sentence_to_token_ids
    pc,          \* prepare_data: the source line about to run, 0 outside it
    sizes,       \* prepare_data: to_vocabulary_size and from_vocabulary_size
    existed      \* prepare_data: the output files that existed when it was called

vars == <<fs, call, err, io, vocab, rev_vocab, token_ids, input, pc, sizes, existed>>

\* gfile.Exists, and a file opened for writing and closed: the file exists
\* afterwards with the bytes written, whatever it held before.
Exists(path) == path \in DOMAIN fs
WriteFile(path, content) == (path :> content) @@ fs

\* The paths prepare_data derives from its arguments.
to_train_path == "train.to"
from_train_path == "train.from"
to_dev_path == "dev.to"
from_dev_path == "dev.from"
to_vocab_path == "vocab.to"
from_vocab_path == "vocab.from"
to_train_ids_path == "train.to.ids"
from_train_ids_path == "train.from.ids"
to_dev_ids_path == "dev.to.ids"
from_dev_ids_path == "dev.from.ids"

\* ---------------------------------------------------- create_vocabulary
\* The counting loop over the tokens of one line: vocab[word] += 1, or = 1.
RECURSIVE CountWords(_, _, _)
CountWords(tokens, counts, normalize_digits) ==
    IF tokens = <<>> THEN counts
    ELSE LET word == IF normalize_digits THEN DigitSub(Head(tokens)) ELSE Head(tokens)
         IN  CountWords(Tail(tokens),
                        IF word \in DOMAIN counts
                        THEN [counts EXCEPT ![word] = @ + 1]
                        ELSE (word :> 1) @@ counts,
                        normalize_digits)

\* The loop over the lines of the corpus file.
RECURSIVE CountLines(_, _, _)
CountLines(lines, counts, normalize_digits) ==
    IF lines = <<>> THEN counts
    ELSE CountLines(Tail(lines),
                    CountWords(basic_tokenizer(Head(lines)), counts, normalize_digits),
                    normalize_digits)

CountCorpus(content, normalize_digits) ==
    CountLines(ReadLines(content), <<>>, normalize_digits)

\* The orders in which iterating a dict may enumerate its keys (insertion
\* order on current interpreters, an arbitrary fixed order on older ones).
RECURSIVE Enumerations(_)
Enumerations(S) ==
    IF S = {} THEN {<<>>}
    ELSE UNION {{<<x>> \o e : e \in Enumerations(S \ {x})} : x \in S}

\* sorted(keys, key=counts.get, reverse=True): a stable sort, larger counts
\* first, equal counts in the order of enumeration.
RECURSIVE InsertSorted(_, _, _)
InsertSorted(s, x, counts) ==
    IF s = <<>> THEN <<x>>
    ELSE IF counts[Head(s)] < counts[x] THEN <<x>> \o s
    ELSE <<Head(s)>> \o InsertSorted(Tail(s), x, counts)

RECURSIVE SortedFrom(_, _, _)
SortedFrom(keys, counts, acc) ==
    IF keys = <<>> THEN acc
    ELSE SortedFrom(Tail(keys), counts, InsertSorted(acc, Head(keys), counts))

\* Mutant: the list is not sorted by count, it stays in enumeration order.
Sorted_Unsorted(keys, counts) == keys

Sorted(keys, counts) == SortedFrom(keys, counts, <<>>)

\* vocab_list[:n], Python's slice (a negative n counts from the end).
SliceTo(list, n) ==
    IF n >= 0 THEN SubSeq(list, 1, IF n < Len(list) THEN n ELSE Len(list))
    ELSE SubSeq(list, 1, Len(list) + n)

\* Mutant: the limit is applied to the corpus tokens only.
Truncate_CorpusOnly(vocab_list, max_vocabulary_size) ==
    _START_VOCAB \o SliceTo(SubSeq(vocab_list, 5, Len(vocab_list)), max_vocabulary_size)

Truncate(vocab_list, max_vocabulary_size) ==
    IF Len(vocab_list) > max_vocabulary_size
    THEN SliceTo(vocab_list, max_vocabulary_size)
    ELSE vocab_list

\* Mutant: the reserved symbols are put after the corpus tokens.
VocabList_ReservedLast(counts, keys, max_vocabulary_size) ==
    Truncate(Sorted(keys, counts) \o _START_VOCAB, max_vocabulary_size)

\* The vocabulary list for a corpus, given the enumeration order of the dict.
VocabList(counts, keys, max_vocabulary_size) ==
    Truncate(_START_VOCAB \o Sorted(keys, counts), max_vocabulary_size)

\* for w in vocab_list: vocab_file.write(w + b"\n")
RECURSIVE WriteLines(_)
WriteLines(list) ==
    IF list = <<>> THEN <<>> ELSE Head(list) \o <<"\n">> \o WriteLines(Tail(list))

CreateCall(vocabulary_path, data_path, max_vocabulary_size) ==
    [op |-> "create_vocabulary", path |-> vocabulary_path, data |-> data_path,
     max |-> max_vocabulary_size]

\* Lines 113 to 118: the list is sorted, cut and written.
BuildVocabulary(vocabulary_path, data_path, max_vocabulary_size) ==
    LET counts == CountCorpus(fs[data_path], TRUE)
    IN  \E keys \in Enumerations(DOMAIN counts) :
          fs' = WriteFile(vocabulary_path,
                          WriteLines(VocabList(counts, keys, max_vocabulary_size)))

\* Mutant: the existence check of line 96 is missing, an existing file is rebuilt.
CreateVocabulary_Overwrite(vocabulary_path, data_path, max_vocabulary_size) ==
    /\ call' = CreateCall(vocabulary_path, data_path, max_vocabulary_size)
    /\ IF ~Exists(data_path)
       THEN /\ fs' = fs
            /\ err' = "NotFoundError"
            /\ io' = <<<<"open", data_path>>>>
       ELSE /\ BuildVocabulary(vocabulary_path, data_path, max_vocabulary_size)
            /\ err' = "None"
            /\ io' = <<<<"read", data_path>>, <<"write", vocabulary_path>>>>

\* Mutant: the vocabulary file is opened for writing before the corpus is read.
CreateVocabulary_OpenFirst(vocabulary_path, data_path, max_vocabulary_size) ==
    /\ call' = CreateCall(vocabulary_path, data_path, max_vocabulary_size)
    /\ IF Exists(vocabulary_path)
       THEN /\ fs' = fs
            /\ err' = "None"
            /\ io' = <<<<"exists", vocabulary_path>>>>
       ELSE IF ~Exists(data_path)
       THEN /\ fs' = WriteFile(vocabulary_path, <<>>)
            /\ err' = "NotFoundError"
            /\ io' = <<<<"exists", vocabulary_path>>, <<"write", vocabulary_path>>,
                       <<"open", data_path>>>>
       ELSE /\ BuildVocabulary(vocabulary_path, data_path, max_vocabulary_size)
            /\ err' = "None"
            /\ io' = <<<<"exists", vocabulary_path>>, <<"write", vocabulary_path>>,
                       <<"read", data_path>>>>

CreateVocabulary(vocabulary_path, data_path, max_vocabulary_size) ==
    /\ call' = CreateCall(vocabulary_path, data_path, max_vocabulary_size)
    /\ IF Exists(vocabulary_path)
       THEN /\ fs' = fs
            /\ err' = "None"
            /\ io' = <<<<"exists", vocabulary_path>>>>
       ELSE IF ~Exists(data_path)
       THEN /\ fs' = fs
            /\ err' = "NotFoundError"
            /\ io' = <<<<"exists", vocabulary_path>>, <<"open", data_path>>>>
       ELSE /\ BuildVocabulary(vocabulary_path, data_path, max_vocabulary_size)
            /\ err' = "None"
            /\ io' = <<<<"exists", vocabulary_path>>, <<"read", data_path>>,
                       <<"write", vocabulary_path>>>>

\* A run of create_vocabulary that is killed while it writes the file: some
\* proper prefix of the bytes has reached the disk, and nothing is raised.
CreateVocabularyKilled(vocabulary_path, data_path, max_vocabulary_size) ==
    /\ ~Exists(vocabulary_path)
    /\ Exists(data_path)
    /\ LET counts == CountCorpus(fs[data_path], TRUE)
       IN  \E keys \in Enumerations(DOMAIN counts) :
             LET whole == WriteLines(VocabList(counts, keys, max_vocabulary_size))
             IN  \E n \in 0..(Len(whole) - 1) :
                   fs' = WriteFile(vocabulary_path, SubSeq(whole, 1, n))
    /\ call' = [op |-> "killed", path |-> vocabulary_path, data |-> data_path]
    /\ err' = "None"
    /\ io' = <<<<"exists", vocabulary_path>>, <<"read", data_path>>,
               <<"write", vocabulary_path>>>>

NoCall == [op |-> "none"]
NoInput == [sentence |-> <<>>, normalize_digits |-> TRUE]

\* A vocabulary file left by an earlier run: stale, cut short, edited by hand.
OldVocabularies ==
    { WriteLines(<<_PAD, _GO, _EOS, _UNK, <<"a">>>>),
      <<"_PAD", "\n", "_G">>,
      <<>> }

VocabSizes == 0..MaxVocabularySize

InitVocab ==
    /\ \E corpus \in SUBSET {from_train_path}, old \in SUBSET {from_vocab_path} :
         \E c \in Corpora, v \in OldVocabularies :
           fs = [p \in corpus \cup old |-> IF p = from_train_path THEN c ELSE v]
    /\ call = NoCall
    /\ err = "None"
    /\ io = <<>>
    /\ vocab = <<>>
    /\ rev_vocab = <<>>
    /\ token_ids = <<>>
    /\ input = NoInput
    /\ pc = 0
    /\ sizes = [to |-> 0, from |-> 0]
    /\ existed = {}

CallCreateVocabulary ==
    /\ \E max \in VocabSizes : CreateVocabulary(from_vocab_path, from_train_path, max)
    /\ UNCHANGED <<vocab, rev_vocab, token_ids, input, pc, sizes, existed>>

KillCreateVocabulary ==
    /\ \E max \in VocabSizes : CreateVocabularyKilled(from_vocab_path, from_train_path, max)
    /\ UNCHANGED <<vocab, rev_vocab, token_ids, input, pc, sizes, existed>>

NextVocab == CallCreateVocabulary \/ KillCreateVocabulary

SpecVocab == InitVocab /\ [][NextVocab]_vars

\* ------------------------------------------------- initialize_vocabulary
\* [line.strip() for line in f.readlines()]
StripLines(lines) == [i \in 1..Len(lines) |-> Strip(lines[i])]

\* Mutant: the positions are counted from 1.
Enumerate_FromOne(list) == [i \in 1..Len(list) |-> <<list[i], i>>]

\* enumerate(rev_vocab), swapped: the pairs (token, position), positions from 0.
Enumerate(list) == [i \in 1..Len(list) |-> <<list[i], i - 1>>]

\* dict(pairs): a later pair with the same key replaces an earlier one.
RECURSIVE Dict(_, _)
Dict(pairs, d) ==
    IF pairs = <<>> THEN d
    ELSE Dict(Tail(pairs), (Head(pairs)[1] :> Head(pairs)[2]) @@ d)

RevVocab(content) == StripLines(ReadLines(content))
Vocab(content) == Dict(Enumerate(RevVocab(content)), <<>>)

InitializeVocabulary(vocabulary_path) ==
    /\ call' = [op |-> "initialize_vocabulary", path |-> vocabulary_path]
    /\ fs' = fs
    /\ IF Exists(vocabulary_path)
       THEN /\ rev_vocab' = RevVocab(fs[vocabulary_path])
            /\ vocab' = Vocab(fs[vocabulary_path])
            /\ err' = "None"
            /\ io' = <<<<"exists", vocabulary_path>>, <<"read", vocabulary_path>>>>
       ELSE /\ UNCHANGED <<vocab, rev_vocab>>
            /\ err' = "ValueError"
            /\ io' = <<<<"exists", vocabulary_path>>>>

\* ------------------------------------------------- sentence_to_token_ids
\* vocabulary.get(w, default)
Get(vocabulary, w, default) == IF w \in DOMAIN vocabulary THEN vocabulary[w] ELSE default

\* Mutant: digits are normalized whatever normalize_digits says.
sentence_to_token_ids_Normalizing(sentence, vocabulary, normalize_digits) ==
    LET words == basic_tokenizer(sentence)
    IN  [i \in 1..Len(words) |-> Get(vocabulary, DigitSub(words[i]), UNK_ID)]

sentence_to_token_ids(sentence, vocabulary, normalize_digits) ==
    LET words == basic_tokenizer(sentence)
    IN  IF ~normalize_digits
        THEN [i \in 1..Len(words) |-> Get(vocabulary, words[i], UNK_ID)]
        ELSE [i \in 1..Len(words) |-> Get(vocabulary, DigitSub(words[i]), UNK_ID)]

SentenceToTokenIds(sentence, normalize_digits) ==
    /\ call' = [op |-> "sentence_to_token_ids"]
    /\ token_ids' = sentence_to_token_ids(sentence, vocab, normalize_digits)
    /\ err' = "None"
    /\ io' = <<>>
    /\ UNCHANGED <<fs, vocab, rev_vocab>>

\* The corpora the vocabulary files of the encoder's runs were built from.
IndexCorpora ==
    { <<"a", " ", "1", ".", "\n", "a">>,
      <<"_PAD", " ", "2", "a">>,
      <<>> }

\* The vocabulary files an index is loaded from: files create_vocabulary
\* writes (with and without digit normalization) and files left behind.
IndexVocabularies ==
    OldVocabularies \cup
    UNION { LET counts == CountCorpus(c, n)
            IN  {WriteLines(VocabList(counts, keys, max)) :
                   keys \in Enumerations(DOMAIN counts), max \in {3, MaxVocabularySize}}
            : c \in IndexCorpora, n \in BOOLEAN }

InitEncode ==
    /\ \E old \in SUBSET {from_vocab_path} : \E v \in IndexVocabularies :
         fs = [p \in old |-> v]
    /\ call = NoCall
    /\ err = "None"
    /\ io = <<>>
    /\ vocab = <<>>
    /\ rev_vocab = <<>>
    /\ token_ids = <<>>
    /\ input \in [sentence : Sentences, normalize_digits : BOOLEAN]
    /\ pc = 0
    /\ sizes = [to |-> 0, from |-> 0]
    /\ existed = {}

CallInitializeVocabulary ==
    /\ InitializeVocabulary(from_vocab_path)
    /\ UNCHANGED <<token_ids, input, pc, sizes, existed>>

CallSentenceToTokenIds ==
    /\ SentenceToTokenIds(input.sentence, input.normalize_digits)
    /\ UNCHANGED <<input, pc, sizes, existed>>

NextEncode == CallInitializeVocabulary \/ CallSentenceToTokenIds

SpecEncode == InitEncode /\ [][NextEncode]_vars

\* ----------------------------------------------------- data_to_token_ids
\* " ".join([str(tok) for tok in token_ids]) + "\n"; the decimal form of an
\* id is one atom of the line.
RECURSIVE Join(_)
Join(ids) ==
    IF ids = <<>> THEN <<>>
    ELSE IF Len(ids) = 1 THEN <<ToString(Head(ids))>>
    ELSE <<ToString(Head(ids)), " ">> \o Join(Tail(ids))

RECURSIVE EncodeLines(_, _)
EncodeLines(lines, vocabulary) ==
    IF lines = <<>> THEN <<>>
    ELSE Join(sentence_to_token_ids(Head(lines), vocabulary, TRUE)) \o <<"\n">>
         \o EncodeLines(Tail(lines), vocabulary)

DataToTokenIds(data_path, target_path, vocabulary_path) ==
    /\ call' = [op |-> "data_to_token_ids", path |-> target_path, data |-> data_path]
    /\ IF Exists(target_path)
       THEN /\ fs' = fs
            /\ err' = "None"
            /\ io' = <<<<"exists", target_path>>>>
            /\ UNCHANGED <<vocab, rev_vocab>>
       ELSE IF ~Exists(vocabulary_path)
       THEN /\ fs' = fs
            /\ err' = "ValueError"
            /\ io' = <<<<"exists", target_path>>, <<"exists", vocabulary_path>>>>
            /\ UNCHANGED <<vocab, rev_vocab>>
       ELSE /\ rev_vocab' = RevVocab(fs[vocabulary_path])
            /\ vocab' = Vocab(fs[vocabulary_path])
            /\ IF ~Exists(data_path)
               THEN /\ fs' = fs
                    /\ err' = "NotFoundError"
                    /\ io' = <<<<"exists", target_path>>, <<"exists", vocabulary_path>>,
                               <<"read", vocabulary_path>>, <<"open", data_path>>>>
               ELSE /\ fs' = WriteFile(target_path,
                                       EncodeLines(ReadLines(fs[data_path]), vocab'))
                    /\ err' = "None"
                    /\ io' = <<<<"exists", target_path>>, <<"exists", vocabulary_path>>,
                               <<"read", vocabulary_path>>, <<"read", data_path>>,
                               <<"write", target_path>>>>

\* ---------------------------------------------------------- prepare_data
\* Control is at a line of prepare_data; an exception leaves the function.
At(line) == pc = line
\* Mutant: an exception of the step is swallowed and the next line runs.
Goto_Swallow(next) == pc' = next

Goto(next) == pc' = IF err' = "None" THEN next ELSE 0

Line178 ==
    /\ At(178)
    /\ CreateVocabulary(to_vocab_path, to_train_path, sizes.to)
    /\ Goto(179)
    /\ UNCHANGED <<vocab, rev_vocab, token_ids, input, sizes, existed>>

Line179 ==
    /\ At(179)
    /\ CreateVocabulary(from_vocab_path, from_train_path, sizes.from)
    /\ Goto(184)
    /\ UNCHANGED <<vocab, rev_vocab, token_ids, input, sizes, existed>>

Line184 ==
    /\ At(184)
    /\ DataToTokenIds(to_train_path, to_train_ids_path, to_vocab_path)
    /\ Goto(185)
    /\ UNCHANGED <<token_ids, input, sizes, existed>>

Line185 ==
    /\ At(185)
    /\ DataToTokenIds(from_train_path, from_train_ids_path, from_vocab_path)
    /\ Goto(190)
    /\ UNCHANGED <<token_ids, input, sizes, existed>>

Line190 ==
    /\ At(190)
    /\ DataToTokenIds(to_dev_path, to_dev_ids_path, to_vocab_path)
    /\ Goto(191)
    /\ UNCHANGED <<token_ids, input, sizes, existed>>

Line191 ==
    /\ At(191)
    /\ DataToTokenIds(from_dev_path, from_dev_ids_path, from_vocab_path)
    /\ Goto(193)
    /\ UNCHANGED <<token_ids, input, sizes, existed>>

CorpusPaths == {to_train_path, from_train_path, to_dev_path, from_dev_path}
VocabPaths == {to_vocab_path, from_vocab_path}
IdsPaths == {to_train_ids_path, from_train_ids_path, to_dev_ids_path, from_dev_ids_path}

\* The corpora of the pipeline's runs, and the sizes it is configured with.
PipelineCorpora ==
    { <<"a", " ", "1", ".", "\n", "a", "\n">>,
      <<"_PAD", "\n", "\n", "2">> }

PipelineSizes == {2, 4, MaxVocabularySize}

\* An encoded file left by an earlier run.
OldIds == <<"3", " ", "4", "\n">>
OldVocabulary == WriteLines(<<_PAD, _GO, _EOS, _UNK, <<"a">>>>)

InitPipeline ==
    /\ \E corpora \in [CorpusPaths -> PipelineCorpora],
          present \in SUBSET CorpusPaths,
          old \in SUBSET (VocabPaths \cup IdsPaths) :
         /\ fs = [p \in present \cup old |->
                    IF p \in CorpusPaths THEN corpora[p]
                    ELSE IF p \in VocabPaths THEN OldVocabulary ELSE OldIds]
         /\ existed = old
    /\ sizes \in [to : PipelineSizes, from : PipelineSizes]
    /\ call = NoCall
    /\ err = "None"
    /\ io = <<>>
    /\ vocab = <<>>
    /\ rev_vocab = <<>>
    /\ token_ids = <<>>
    /\ input = NoInput
    /\ pc = 178

NextPipeline == Line178 \/ Line179 \/ Line184 \/ Line185 \/ Line190 \/ Line191

SpecPipeline == InitPipeline /\ [][NextPipeline]_vars

\* =========================================================== properties
\* What the claims say, stated over the file contents without the program's
\* own counting and sorting.
Min(a, b) == IF a < b THEN a ELSE b

\* The lines of a file in which every line ends with a line feed.
FileLines(content) ==
    LET lines == ReadLines(content)
    IN  [i \in 1..Len(lines) |-> SubSeq(lines[i], 1, Len(lines[i]) - 1)]

\* The number of line feeds of a file.
NumLines(content) == Cardinality({i \in DOMAIN content : content[i] = "\n"})

\* The token occurrences of a corpus: <<line, position>>.
Occurrences(corpus) ==
    LET lines == ReadLines(corpus)
    IN  UNION {{<<l, i>> : i \in DOMAIN basic_tokenizer(lines[l])} : l \in DOMAIN lines}

TokenAt(corpus, o) == DigitSub(basic_tokenizer(ReadLines(corpus)[o[1]])[o[2]])

\* The distinct digit-normalized tokens of a corpus, and how often each occurs.
NormalizedTokens(corpus) == {TokenAt(corpus, o) : o \in Occurrences(corpus)}
CorpusCount(corpus, t) == Cardinality({o \in Occurrences(corpus) : TokenAt(corpus, o) = t})

\* The last operation was a create_vocabulary that built and wrote the file.
Built == call.op = "create_vocabulary" /\ Len(io) = 3

\* C1: a vocabulary file that create_vocabulary writes has exactly
\* min(max_vocabulary_size, 4 + D) lines, D the number of distinct
\* digit-normalized tokens of the corpus: the reserved symbols count toward
\* the limit and the file never has more lines than the limit.
C1_VocabularySize ==
    Built =>
        NumLines(fs[call.path]) =
            Min(call.max, 4 + Cardinality(NormalizedTokens(fs[call.data])))

\* C1 witness: a file cut to the limit, built from a corpus in which digit
\* normalization merges two tokens.
C1_Witness ==
    /\ Built
    /\ call.max = 5
    /\ Cardinality(NormalizedTokens(fs[call.data])) = 2
    /\ <<"1">> \in Range(basic_tokenizer(fs[call.data]))
    /\ <<"2">> \in Range(basic_tokenizer(fs[call.data]))

C3_NoOpWhenExists ==
    [][ /\ \A p \in DOMAIN fs : p \in DOMAIN fs' /\ fs'[p] = fs[p]
        /\ (call'.op = "create_vocabulary" /\ Exists(call'.path)) =>
              (err' = "None" /\ io' = <<<<"exists", call'.path>>>>) ]_vars

\* C3 witness: a call has found a file cut short by an interrupted run, with
\* the corpus file missing.
C3_Witness ==
    /\ call.op = "create_vocabulary"
    /\ io = <<<<"exists", call.path>>>>
    /\ ~Exists(call.data)
    /\ fs[call.path] = <<"_PAD", "\n", "_G">>

\* C6: after the four reserved symbols the entries are corpus tokens in
\* non-increasing order of their counts, and no token dropped by the
\* truncation has a larger count than a token that is kept.
C6_FrequencyOrder ==
    Built =>
        LET lines == FileLines(fs[call.path])
            corpus == fs[call.data]
            kept == {lines[i] : i \in 5..Len(lines)}
        IN  /\ \A i \in 5..Len(lines) : lines[i] \in NormalizedTokens(corpus)
            /\ \A i, j \in 5..Len(lines) :
                 i < j => CorpusCount(corpus, lines[i]) >= CorpusCount(corpus, lines[j])
            /\ \A t \in NormalizedTokens(corpus) \ kept : \A k \in kept :
                 CorpusCount(corpus, t) <= CorpusCount(corpus, k)

\* C6 witness: two tokens with different counts are kept.
C6_Witness ==
    /\ Built
    /\ LET lines == FileLines(fs[call.path])
           corpus == fs[call.data]
       IN  /\ Len(lines) = 6
           /\ CorpusCount(corpus, lines[5]) > CorpusCount(corpus, lines[6])

\* C7: with no file at vocabulary_path and no corpus file, create_vocabulary
\* fails with a not-found error and leaves no file at vocabulary_path; the
\* vocabulary file is written only after the corpus has been read.
C7_NoFileOnMissingCorpus ==
    [][ /\ (call'.op = "create_vocabulary" /\ ~Exists(call'.path) /\ ~Exists(call'.data))
           => (err' = "NotFoundError" /\ call'.path \notin DOMAIN fs')
        /\ (call'.op = "create_vocabulary") =>
              \A i \in DOMAIN io' :
                 io'[i] = <<"write", call'.path>> =>
                    \E j \in 1..(i - 1) : io'[j] = <<"read", call'.data>> ]_vars

\* C7 witness: the call has failed and the file system holds no file.
C7_Witness ==
    /\ call.op = "create_vocabulary"
    /\ err = "NotFoundError"
    /\ DOMAIN fs = {}

\* The tokens of the sentence given to sentence_to_token_ids, as looked up.
LookedUp ==
    LET words == basic_tokenizer(input.sentence)
    IN  [i \in 1..Len(words) |->
           IF input.normalize_digits THEN DigitSub(words[i]) ELSE words[i]]

\* C4: sentence_to_token_ids returns one id per token, in order, and raises
\* nothing: the index value of a token the index holds, UNK_ID = 3 for a token
\* it does not hold (the token digit-normalized when normalize_digits is true,
\* raw otherwise).
C4_UnknownToUnk ==
    call.op = "sentence_to_token_ids" =>
        /\ err = "None"
        /\ Len(token_ids) = Len(LookedUp)
        /\ \A i \in 1..Len(LookedUp) :
             /\ LookedUp[i] \in DOMAIN vocab => token_ids[i] = vocab[LookedUp[i]]
             /\ LookedUp[i] \notin DOMAIN vocab => token_ids[i] = 3

\* C4 witness: a sentence with a token the index holds and one it does not,
\* encoded without digit normalization.
C4_Witness ==
    /\ call.op = "sentence_to_token_ids"
    /\ ~input.normalize_digits
    /\ \E i, j \in 1..Len(LookedUp) :
         /\ LookedUp[i] \in DOMAIN vocab
         /\ LookedUp[j] \notin DOMAIN vocab
         /\ LookedUp[j] # DigitSub(LookedUp[j])

\* C5: with an index loaded from a vocabulary of at least 4 entries and a
\* sentence whose digit-normalized tokens are all in the index, the ids of
\* sentence_to_token_ids mapped back through the ordered list are the
\* digit-normalized tokens of the sentence, same length and order.
C5_RoundTrip ==
    ( /\ call.op = "sentence_to_token_ids"
      /\ input.normalize_digits
      /\ Len(rev_vocab) >= 4
      /\ \A i \in 1..Len(LookedUp) : LookedUp[i] \in DOMAIN vocab ) =>
        /\ Len(token_ids) = Len(LookedUp)
        /\ \A i \in 1..Len(token_ids) :
             /\ token_ids[i] + 1 \in DOMAIN rev_vocab
             /\ rev_vocab[token_ids[i] + 1] = LookedUp[i]

\* C5 witness: a sentence of two known tokens, one of them changed by the
\* digit normalization.
C5_Witness ==
    /\ call.op = "sentence_to_token_ids"
    /\ input.normalize_digits
    /\ Len(rev_vocab) >= 4
    /\ Len(token_ids) >= 2
    /\ \A i \in 1..Len(LookedUp) : LookedUp[i] \in DOMAIN vocab
    /\ LookedUp # basic_tokenizer(input.sentence)

\* C8: no encoding step of prepare_data starts before both vocabulary files
\* exist, and once a step has failed no later step runs.
C8_Sequencing ==
    /\ []((call.op = "data_to_token_ids" \/ pc \in {184, 185, 190, 191, 193}) =>
            (Exists(to_vocab_path) /\ Exists(from_vocab_path)))
    /\ [][err # "None" => UNCHANGED vars]_vars

\* C8 witness: an encoding step has failed, after both vocabulary files were
\* built, and prepare_data is left.
C8_Witness ==
    /\ call.op = "data_to_token_ids"
    /\ err = "NotFoundError"
    /\ pc = 0
    /\ existed = {}
    /\ Exists(to_vocab_path) /\ Exists(from_vocab_path)

\* The encoded files of prepare_data: corpus, encoded file, vocabulary, size.
Encodings ==
    { <<to_train_path, to_train_ids_path, to_vocab_path, sizes.to>>,
      <<from_train_path, from_train_ids_path, from_vocab_path, sizes.from>>,
      <<to_dev_path, to_dev_ids_path, to_vocab_path, sizes.to>>,
      <<from_dev_path, from_dev_ids_path, from_vocab_path, sizes.from>> }

\* The decimal forms of the ids below n.
Decimals(n) == {<<ToString(i)>> : i \in 0..(n - 1)}

\* C9: started with no output file present, prepare_data returns with two
\* vocabulary files of at most the configured number of lines and four encoded
\* files, each with as many lines as its corpus and holding only integers in
\* [0, vocab_size), vocab_size the number of lines of the vocabulary file.
C9_EndToEnd ==
    (pc = 193 /\ existed = {}) =>
        \A e \in Encodings :
          /\ Exists(e[3]) /\ NumLines(fs[e[3]]) <= e[4]
          /\ Exists(e[2])
          /\ NumLines(fs[e[2]]) = Len(ReadLines(fs[e[1]]))
          /\ Range(Split(fs[e[2]])) \subseteq Decimals(NumLines(fs[e[3]]))

\* C10: the index loaded from a vocabulary file that create_vocabulary wrote
\* is a bijection between positions and tokens: no token is at two positions
\* of the ordered list and the dict maps the token at position i to i (so the
\* reserved symbols, at positions 0 to 3, map to their ids).
C10_IndexBijection ==
    ( /\ call.op = "data_to_token_ids"
      /\ Len(io) >= 3
      /\ io[3][2] \notin existed ) =>
        /\ \A i, j \in DOMAIN rev_vocab : rev_vocab[i] = rev_vocab[j] => i = j
        /\ \A i \in DOMAIN rev_vocab :
             rev_vocab[i] \in DOMAIN vocab /\ vocab[rev_vocab[i]] = i - 1

====
